---- MODULE Spec2Model ----
(***************************************************************************)
(* A model of the slack-to-discord migration pipeline: main's loop over    *)
(* the channels of the export, post_channel's replay of one channel into   *)
(* its destination channel, the posts table (the dedup ledger) and the     *)
(* files table (the content cache).  One run of the tool is one pass of    *)
(* post_channel over the channel; the tables outlive the runs.             *)
(***************************************************************************)
EXTENDS Integers, Sequences, FiniteSets, TLC

\* ------------------------------------------------------------------ bounds

\* Messages in the channel of the export.
MaxMsgs == 2
\* Invocations of the tool over the same export and database.
MaxRuns == 2
\* The calls of fetch_file in a behaviour of the cache alone.
MaxCalls == 3

\* ----------------------------------------------------------- Option values

\* Rust's Option<T>: None is the empty sequence, Some(x) the one-element one.
None == <<>>
Some(x) == <<x>>
IsSome(o) == o # <<>>
Unwrap(o) == o[1]

\* ------------------------------------------------------------- TimeStamp

\* slack::TimeStamp wraps a DateTime<Utc>: whole seconds and the nanoseconds
\* within the second.
Ts(s, n) == [secs |-> s, nsecs |-> n]

\* The derived Ord of TimeStamp: DateTime order.
TsLess(a, b) == a.secs < b.secs \/ (a.secs = b.secs /\ a.nsecs < b.nsecs)
TsLeq(a, b) == a = b \/ TsLess(a, b)

Digits == <<"0", "1", "2", "3", "4", "5", "6", "7", "8", "9">>
Digit(d) == Digits[d + 1]

RECURSIVE DecNat(_)
\* Rust's Display of a non-negative integer: its decimal digits, no padding.
DecNat(n) == IF n < 10 THEN <<Digit(n)>> ELSE DecNat(n \div 10) \o <<Digit(n % 10)>>

\* Display of an i64.
DecInt(n) == IF n < 0 THEN <<"-">> \o DecNat(-n) ELSE DecNat(n)

\* An encoding of the whole seconds only: the text "<secs>.0".
EncodeTsWhole(t) == DecInt(t.secs) \o <<".", "0">>

\* sqlx::Encode for TimeStamp: the text "<secs>.<nsecs>" bound to the query,
\* as a sequence of characters.
EncodeTs(t) == DecInt(t.secs) \o <<".">> \o DecNat(t.nsecs)

RECURSIVE split(_)
\* src.split('.'): the parts between the dots, at least one.
split(src) ==
    IF \A k \in 1..Len(src) : src[k] # "." THEN <<src>>
    ELSE LET dot == CHOOSE k \in 1..Len(src) :
                        src[k] = "." /\ \A h \in 1..(k - 1) : src[h] # "."
         IN  <<SubSeq(src, 1, dot - 1)>> \o split(SubSeq(src, dot + 1, Len(src)))

RECURSIVE DigitsValue(_)
\* The number a sequence of decimal digits stands for.
DigitsValue(s) ==
    IF s = <<>> THEN 0
    ELSE 10 * DigitsValue(SubSeq(s, 1, Len(s) - 1))
         + (CHOOSE d \in 0..9 : Digit(d) = s[Len(s)])

IsDigits(s) == s # <<>> /\ \A k \in 1..Len(s) : \E d \in 0..9 : Digit(d) = s[k]

\* str::parse::<u32>: digits after an optional "+"; an Option in place of the
\* Result.  Texts of up to nine digits, whose numbers are all within u32.
ParseU32(s) ==
    LET digits == IF s # <<>> /\ Head(s) = "+" THEN Tail(s) ELSE s
    IN  IF IsDigits(digits) /\ Len(digits) <= 9
        THEN <<DigitsValue(digits)>> ELSE <<>>

\* str::parse::<i64>: digits after an optional sign.  Texts of up to nine
\* digits, whose numbers are all within i64.
ParseI64(s) ==
    LET signed == s # <<>> /\ Head(s) \in {"+", "-"}
        digits == IF signed THEN Tail(s) ELSE s
    IN  IF IsDigits(digits) /\ Len(digits) <= 9
        THEN <<IF signed /\ Head(s) = "-" THEN -DigitsValue(digits)
               ELSE DigitsValue(digits)>>
        ELSE <<>>

\* parse_timestamp, which sqlx::Decode for TimeStamp calls: the first part is
\* the seconds, the second the nanoseconds, further parts are not looked at;
\* an Option in place of the Result.  NaiveDateTime::from_timestamp builds
\* the instant of these seconds and nanoseconds (nanoseconds below 10^9).
parse_timestamp(src) ==
    LET splited == split(src)
        secs == ParseI64(splited[1])
    IN  IF secs = <<>> \/ Len(splited) < 2 THEN <<>>
        ELSE LET nsecs == ParseU32(splited[2])
             IN  IF nsecs = <<>> THEN <<>> ELSE <<Ts(secs[1], nsecs[1])>>

\* ------------------------------------------------------------ the export

\* The timestamps the messages of the modelled export carry.
TsSet == {Ts(1, 0), Ts(2, 0)}

\* reply_count: Option<u64>.
ReplyCounts == {None, Some(0), Some(1)}

\* thread_ts: Option<TimeStamp>.
ThreadTss == {None} \cup {Some(t) : t \in TsSet}

\* slack::File, tagged by "mode".
Hosted(n, t, u) == [mode |-> "hosted", name |-> n, title |-> t, url_private_download |-> u]
Tombstone == [mode |-> "tombstone", name |-> "", title |-> "", url_private_download |-> ""]

\* files: Option<Vec<File>>, flattened: no list and the empty list are alike.
FileLists == {<<>>, <<Hosted("a.png", "a", "u1")>>}

\* Attachment lists of a message with several files: two hosted files of one
\* name, two of different names, a tombstone among them.
SeveralFileLists ==
    {<<>>,
     <<Hosted("a.png", "a", "u1")>>,
     <<Hosted("a.png", "a", "u1"), Hosted("a.png", "b", "u2")>>,
     <<Hosted("a.png", "a", "u1"), Hosted("b.png", "b", "u2")>>,
     <<Tombstone, Hosted("b.png", "b", "u2")>>}

\* slack::Message::Message, the fields post_channel reads.  A message that
\* carries a reply_count is a thread root: the thread_ts the export gives it,
\* if any, is its own ts.
Messages ==
    {m \in [ts : TsSet, reply_count : ReplyCounts, thread_ts : ThreadTss, files : FileLists] :
        (IsSome(m.reply_count) /\ IsSome(m.thread_ts)) => m.thread_ts = Some(m.ts)}

RECURSIVE InsertSorted(_, _)
\* One step of the stable sort by ts: m goes after every message whose ts is
\* not greater than its own.
InsertSorted(sorted, m) ==
    IF sorted = <<>> THEN <<m>>
    ELSE IF TsLeq(Head(sorted).ts, m.ts)
         THEN <<Head(sorted)>> \o InsertSorted(Tail(sorted), m)
         ELSE <<m>> \o sorted

RECURSIVE SortedUpTo(_, _)
SortedUpTo(msgs, k) ==
    IF k = 0 THEN <<>> ELSE InsertSorted(SortedUpTo(msgs, k - 1), msgs[k])

\* The messages left in archive order.
sort_by_key_skipped(msgs) == msgs

\* get_channels_stream: channel.messages.sort_by_key(ts), a stable sort of the
\* messages in the order the archive's entries gave them.
sort_by_key(msgs) == SortedUpTo(msgs, Len(msgs))

\* Sequences over S of length at most n.
SeqUpTo(S, n) == UNION {[1..k -> S] : k \in 0..n}

\* The source channel of the export.
SlackChannelId == "C1"
SlackChannelName == "general"

\* Discord snowflakes, by the kind of object they name.
Id(kind, n) == <<kind, n>>
\* The destination channel provision_channels mapped the source channel to.
DiscordChannelId == Id("channel", 0)

\* A second source channel, and the destination channel and category that
\* may stand for it.
OtherChannelId == "C2"
OtherChannelName == "random"
OtherDiscordChannelId == Id("channel", -1)
ChannelNames == <<SlackChannelName, OtherChannelName>>
CategoryName == "migrated"
CategoryId == Id("channel", -2)
OtherCategoryName == "archive"
OtherCategoryId == Id("channel", -3)

\* --------------------------------------------------------------- state

VARIABLES
    channel,           \* the SlackChannel main's loop is at
    discord_channels,  \* provision_channels' map: channel name -> destination id
    slack_messages,    \* the Vec<SlackChannel> get_channels_stream built
    rest,              \* the channels main's loop has yet to visit in this run
    guild,             \* the destination guild's channels, as get_channels lists them
    config,            \* the channel config: channel name -> category name
    users,             \* user_id_to_real_name: user id -> readable name
    text,              \* the formatted text of the message being rendered
    content,           \* Option<MessagePost.content>: the text after the substitution
    bound_ts,          \* the texts sqlx::Encode wrote for the timestamps bound so far
    decoded_ts,        \* what sqlx::Decode made of these texts: Option<TimeStamp> each
    posts_table,       \* the rows of table posts, in insertion order
    files_table,       \* table files: url -> Option<FileRow>
    run,               \* invocations of the tool so far
    pc,                \* where post_channel stands in the current message
    index,             \* position of the current message in channel.messages
    result,            \* "none", "running", or how the last run ended: "Ok", "Err"
    error,             \* the error the last failed run returned
    files,             \* post_channel's local: the fetched attachments by name
    target,            \* the ChannelId the message is posted to
    msg,               \* Option<MessageGet.id>: what post_message returned
    thread_id,         \* Option<ChannelId>: what start_thread returned
    log,               \* history: destination calls, inserts, sleeps of this run
    dest_messages,     \* the destination: the messages post_message created
    dest_threads,      \* the destination: the threads start_thread opened
    lost_count,        \* history: runs that failed between a message's post and its insert
    next_id,           \* the destination's next snowflake
    completed          \* history: some run has finished without error

vars == <<channel, discord_channels, slack_messages, rest, guild, config, users, text,
          content, bound_ts, decoded_ts, posts_table, files_table, run, pc, index, result,
          error, files, target, msg, thread_id, log, dest_messages, dest_threads,
          lost_count, next_id, completed>>

\* What does not change while one message is being processed.
rendering == <<users, text, content>>
binding == <<bound_ts, decoded_ts>>
export == <<channel, discord_channels, slack_messages, rest, guild, config, rendering,
            binding>>
locals == <<files, target, msg, thread_id>>
destination == <<dest_messages, dest_threads, next_id>>

\* ------------------------------------------------------------ the tables

\* struct PostRecord, a row of table posts.
PostRecord(id, slack_channel_id, discord_channel_id, slack_ts, discord_thread_id) ==
    [id |-> id, slack_channel_id |-> slack_channel_id,
     discord_channel_id |-> discord_channel_id, slack_ts |-> slack_ts,
     discord_thread_id |-> discord_thread_id]

\* A select that never matches: the dedup check finds nothing.
select_posts_nothing(table, ts, channel_id) == <<>>

\* "select * from posts where slack_ts = ? and slack_channel_id = ?": the
\* matching rows in table order.
select_posts(table, ts, channel_id) ==
    LET bound == EncodeTs(ts)
    IN  SelectSeq(table, LAMBDA r : r.slack_ts = bound /\ r.slack_channel_id = channel_id)

\* A fetch_optional that finds no row.
fetch_optional_none(rows) == None

\* fetch_optional: the first matching row, if any.
fetch_optional(rows) == IF rows = <<>> THEN None ELSE Some(Head(rows))

\* struct FileRow.
FileRow(url, inner, mime) == [url |-> url, inner |-> inner, mime |-> mime]

\* The urls of the export and what the network may answer for them.
Urls == {"u1", "u2"}
Bodies == {"b1", "b2"}
Mimes == {"image/png"}
FetchErrors == {"GetSql", "FetchFromUrl", "NoCntentType", "InvalidContentType", "InsertSql"}
\* One call's environment: an error at one of fetch_file's fallible steps, or
\* the response the network gives.
FetchOutcomes == [err : FetchErrors, body : {""}, mime : {""}]
                 \cup [err : {""}, body : Bodies, mime : Mimes]

\* A fetch_file that does not look into the files table: every call downloads
\* and stores what it got.
fetch_file_refetch(table, url, out) ==
    IF out.err # ""
    THEN [table |-> table, ok |-> FALSE, err |-> out.err, row |-> None,
          net |-> out.err # "GetSql"]
    ELSE LET row == FileRow(url, out.body, out.mime)
         IN  [table |-> [table EXCEPT ![url] = Some(row)], ok |-> TRUE, err |-> "",
              row |-> Some(row), net |-> TRUE]

\* A fetch_file that stores its row before the body is read: a failed body
\* read or insert leaves a row without content.
fetch_file_partial(table, url, out) ==
    IF out.err = "GetSql"
    THEN [table |-> table, ok |-> FALSE, err |-> out.err, row |-> None, net |-> FALSE]
    ELSE IF IsSome(table[url])
         THEN [table |-> table, ok |-> TRUE, err |-> "", row |-> table[url], net |-> FALSE]
    ELSE IF out.err \in {"FetchFromUrl", "InsertSql"}
         THEN [table |-> [table EXCEPT ![url] = Some(FileRow(url, "", ""))], ok |-> FALSE,
               err |-> out.err, row |-> None, net |-> TRUE]
    ELSE IF out.err # ""
         THEN [table |-> table, ok |-> FALSE, err |-> out.err, row |-> None, net |-> TRUE]
    ELSE LET row == FileRow(url, out.body, out.mime)
         IN  [table |-> [table EXCEPT ![url] = Some(row)], ok |-> TRUE, err |-> "",
              row |-> Some(row), net |-> TRUE]

\* Db::fetch_file: the row of the files table, or a download stored there.
\* Returns the table afterwards and the Result.
\* net tells whether the call sent a request to the url.
fetch_file(table, url, out) ==
    IF out.err = "GetSql"
    THEN [table |-> table, ok |-> FALSE, err |-> out.err, row |-> None, net |-> FALSE]
    ELSE IF IsSome(table[url])
         THEN [table |-> table, ok |-> TRUE, err |-> "", row |-> table[url], net |-> FALSE]
    ELSE IF out.err # ""
         THEN [table |-> table, ok |-> FALSE, err |-> out.err, row |-> None, net |-> TRUE]
    ELSE LET row == FileRow(url, out.body, out.mime)
         IN  [table |-> [table EXCEPT ![url] = Some(row)], ok |-> TRUE, err |-> "",
              row |-> Some(row), net |-> TRUE]

\* discord::FilePost.
FilePost(mime, title, body) == [mime |-> mime, title |-> title, body |-> body]

\* HashMap::new() and HashMap::insert.
EmptyMap == [k \in {} |-> None]
MapInsert(m, k, v) == [x \in DOMAIN m \cup {k} |-> IF x = k THEN v ELSE m[x]]

\* files.iter().flatten() filtered to slack::File::Hosted, the only mode the
\* filter_map keeps.
HostedOf(fs) == SelectSeq(fs, LAMBDA f : f.mode = "hosted")

RECURSIVE FetchEach(_, _, _, _)
\* The filter_map over the stream: fetch_file for the first k hosted files, one
\* after the other, every one of them attempted.  Returns the files table
\* afterwards and the Vec of Results.
FetchEach(hosted, outs, k, table) ==
    IF k = 0 THEN [table |-> table, results |-> <<>>]
    ELSE LET before == FetchEach(hosted, outs, k - 1, table)
             got == fetch_file(before.table, hosted[k].url_private_download, outs[k])
         IN  [table |-> got.table,
              results |-> Append(before.results,
                                 [ok |-> got.ok, err |-> got.err, name |-> hosted[k].name,
                                  title |-> hosted[k].title, row |-> got.row])]

RECURSIVE CollectMap(_, _)
\* .collect::<Result<HashMap<_, _>, _>>() over results known to be all Ok:
\* one (name, FilePost) pair after the other, a later name replacing an earlier.
CollectMap(results, k) ==
    IF k = 0 THEN EmptyMap
    ELSE MapInsert(CollectMap(results, k - 1), results[k].name,
                   FilePost(Unwrap(results[k].row).mime, results[k].title,
                            Unwrap(results[k].row).inner))

\* The first Err of the Vec, if there is one.
FirstErr(results) ==
    LET bad == SelectSeq(results, LAMBDA r : ~r.ok)
    IN  IF bad = <<>> THEN "" ELSE Head(bad).err

\* ----------------------------------------------------- destination guild

\* discord::ChannelGet, but for message_count, which nothing reads.
ChannelGet(name, id, channel_type, parent_id) ==
    [name |-> name, id |-> id, channel_type |-> channel_type, parent_id |-> parent_id]

\* The guild in which the channels of a name -> id map stand deployed: the
\* category, and every channel of the map as a text channel under it.
DeployedGuild(map) ==
    LET names == SelectSeq(ChannelNames, LAMBDA n : n \in DOMAIN map)
    IN  IF names = <<>> THEN <<>>
        ELSE <<ChannelGet(CategoryName, CategoryId, "GuildCategory", None)>>
             \o [k \in 1..Len(names) |->
                    ChannelGet(names[k], map[names[k]], "GuildText", Some(CategoryId))]

\* The config under which the channels of the map were deployed.
DeployedConfig(map) == [n \in DOMAIN map |-> CategoryName]

\* config.0.values() collected into a HashSet, and the orders in which a loop
\* may go through a HashSet.
CategoriesOf(cfg) == {cfg[n] : n \in DOMAIN cfg}
Orders(S) == {s \in [1..Cardinality(S) -> S] : \A i, j \in DOMAIN s : i # j => s[i] # s[j]}

RECURSIVE CollectCategories(_, _, _)
\* provision_channel_categories, the categories found deployed: of the first k
\* channels get_channels listed, the GuildCategory channels whose name is one
\* of the config's categories, collected into a HashMap name -> id.
CollectCategories(listed, k, categories) ==
    IF k = 0 THEN EmptyMap
    ELSE LET before == CollectCategories(listed, k - 1, categories)
         IN  IF listed[k].channel_type = "GuildCategory" /\ listed[k].name \in categories
             THEN MapInsert(before, listed[k].name, listed[k].id)
             ELSE before

RECURSIVE CategoriesLoop(_, _, _)
\* provision_channel_categories, "for category in categories", the first k
\* categories of the loop's order: discord::post_channel for a category that
\* is not deployed, whose error ends the loop.  st holds the guild, the next
\* snowflake, the map so far, the post_channel calls that will still succeed
\* and the channels created.
CategoriesLoop(order, k, st) ==
    IF k = 0 THEN st
    ELSE LET b == CategoriesLoop(order, k - 1, st)
             created == ChannelGet(order[k], Id("channel", b.next), "GuildCategory", None)
         IN  IF b.err # "" \/ order[k] \in DOMAIN b.map THEN b
             ELSE IF b.posts = 0 THEN [b EXCEPT !.err = "create category"]
             ELSE [err |-> "", guild |-> Append(b.guild, created), next |-> b.next + 1,
                   map |-> MapInsert(b.map, order[k], created.id), posts |-> b.posts - 1,
                   created |-> Append(b.created, created)]

\* provision_channel_categories.  env tells how many get_channels and how
\* many post_channel calls of the run succeed before one fails.
provision_channel_categories(listed, next, order, env) ==
    LET st == [err |-> "", guild |-> listed, next |-> next,
               map |-> CollectCategories(listed, Len(listed), {order[k] : k \in DOMAIN order}),
               posts |-> env.posts, created |-> <<>>]
    IN  IF env.gets = 0 THEN [st EXCEPT !.err = "get_channels", !.map = EmptyMap]
        ELSE CategoriesLoop(order, Len(order), st)

\* A provisioner that takes no channel of the guild for deployed.
CollectDeployedNothing(listed, k, category_ids) == EmptyMap

RECURSIVE CollectDeployed(_, _, _)
\* provision_channels, channels_deployed before the loop: of the first k
\* channels get_channels listed, the GuildText channels whose parent is one of
\* the categories, collected into a HashMap name -> ChannelGet.
CollectDeployed(listed, k, category_ids) ==
    IF k = 0 THEN EmptyMap
    ELSE LET before == CollectDeployed(listed, k - 1, category_ids)
         IN  IF /\ listed[k].channel_type = "GuildText"
                /\ IsSome(listed[k].parent_id)
                /\ Unwrap(listed[k].parent_id) \in category_ids
             THEN MapInsert(before, listed[k].name, listed[k])
             ELSE before

RECURSIVE ChannelsLoop(_, _, _, _, _)
\* provision_channels, "for channel in channels", the first k channels: a
\* channel found in channels_deployed is passed over; one the config names is
\* created under its category and inserted; any other gets a warning.
ChannelsLoop(channels, k, cfg, categories, st) ==
    IF k = 0 THEN st
    ELSE LET b == ChannelsLoop(channels, k - 1, cfg, categories, st)
             name == channels[k].name
         IN  IF b.err # "" \/ name \in DOMAIN b.map THEN b
             ELSE IF name \notin DOMAIN cfg THEN b
             ELSE IF cfg[name] \notin DOMAIN categories
                  THEN [b EXCEPT !.err = "category yet deployed"]
             ELSE IF b.posts = 0 THEN [b EXCEPT !.err = "deploy channel"]
             ELSE LET created == ChannelGet(name, Id("channel", b.next), "GuildText",
                                            Some(categories[cfg[name]]))
                  IN  [err |-> "", guild |-> Append(b.guild, created), next |-> b.next + 1,
                       map |-> MapInsert(b.map, name, created), posts |-> b.posts - 1,
                       created |-> Append(b.created, created)]

\* provision_channels: the categories, the channels found deployed under
\* them, then the loop over the export's channels.  Returns the guild and the
\* next snowflake afterwards, the error or the map name -> ChannelGet, and the
\* channels created.
provision_channels(listed, next, channels, cfg, order, env) ==
    LET cats == provision_channel_categories(listed, next, order, env)
        ids == {cats.map[c] : c \in DOMAIN cats.map}
        st == [cats EXCEPT !.map = CollectDeployed(cats.guild, Len(cats.guild), ids)]
    IN  IF cats.err # "" THEN cats
        ELSE IF env.gets < 2 THEN [cats EXCEPT !.err = "get discord channels", !.map = EmptyMap]
        ELSE ChannelsLoop(channels, Len(channels), cfg, cats.map, st)

\* ------------------------------------------------------------ rendering

\* Strings are sequences of characters.  The user ids of users.json, one a
\* prefix of the other, and readable names, one of which contains an id.
UserIds == {<<"U", "1">>, <<"U", "1", "2">>}
ReadableNames == {<<"b", "o", "b">>, <<"a", "l">>, <<"x", "U", "1">>}
UserMaps == UNION {[ids -> ReadableNames] : ids \in SUBSET UserIds}

\* Message texts: without an id, with a mention of either id, with both ids.
Texts ==
    {<<"h", "i">>,
     <<"<", "@", "U", "1", ">">>,
     <<"<", "@", "U", "1", "2", ">">>,
     <<"U", "1", " ", "U", "1", "2">>}

\* ts.jtc_date().to_rfc2822(), which holds no user id.
Date == <<"d">>

\* format!("**{}** {}\n{}\n", user, date, text).
Format(user, date, body) ==
    <<"*", "*">> \o user \o <<"*", "*", " ">> \o date \o <<"\n">> \o body \o <<"\n">>

StartsWith(s, prefix) ==
    Len(prefix) <= Len(s) /\ SubSeq(s, 1, Len(prefix)) = prefix

RECURSIVE replace(_, _, _)
\* str::replace for a pattern that is not empty: every match of from, found
\* from left to right without overlap, becomes to.
replace(s, from, to) ==
    IF s = <<>> THEN <<>>
    ELSE IF StartsWith(s, from)
         THEN to \o replace(SubSeq(s, Len(from) + 1, Len(s)), from, to)
    ELSE <<Head(s)>> \o replace(Tail(s), from, to)

RECURSIVE ReplaceFold(_, _, _, _)
\* dict.iter().fold(src, |src, (from, to)| src.replace(from, to)) over the
\* first k entries of the order in which the HashMap iterates.
ReplaceFold(dict, order, k, src) ==
    IF k = 0 THEN src
    ELSE replace(ReplaceFold(dict, order, k - 1, src), order[k], dict[order[k]])

\* replace_slack_id_to_real_name, for one iteration order of the HashMap.
replace_slack_id_to_real_name(dict, order, src) ==
    ReplaceFold(dict, order, Len(order), src)

\* ------------------------------------------------------------- history

\* One entry of the run's log: the operation, the message it was made for, the
\* channel or thread it addressed, the id it returned and whether it succeeded.
Event(op, i, to, id, ok) == [op |-> op, index |-> i, target |-> to, id |-> id, ok |-> ok]

\* One entry of the log of the cache alone: the request fetch_file sent to a
\* url ("http_get"), or a call of fetch_file with the row or error it returned.
CacheEvent(op, url, row, err) ==
    [op |-> op, index |-> 0, target |-> url, id |-> row, ok |-> err = "", err |-> err]

\* ----------------------------------------------------------------- Init

\* The state when the tool is first started: an export whose channel holds any
\* messages in any archive order, sorted by get_channels_stream; the channel
\* configured or not; empty tables.
Init ==
    /\ \E archived \in SeqUpTo(Messages, MaxMsgs) :
           channel = [id |-> SlackChannelId, name |-> SlackChannelName,
                      messages |-> sort_by_key(archived)]
    /\ discord_channels \in {EmptyMap, [n \in {SlackChannelName} |-> DiscordChannelId]}
    /\ slack_messages = <<channel>>
    /\ rest = <<>>
    /\ guild = DeployedGuild(discord_channels)
    /\ config = DeployedConfig(discord_channels)
    /\ users = EmptyMap
    /\ text = <<>>
    /\ content = None
    /\ bound_ts = <<>>
    /\ decoded_ts = <<>>
    /\ posts_table = <<>>
    /\ files_table = [u \in Urls |-> None]
    /\ run = 0
    /\ pc = "idle"
    /\ index = 0
    /\ result = "none"
    /\ error = ""
    /\ files = EmptyMap
    /\ target = None
    /\ msg = None
    /\ thread_id = None
    /\ log = <<>>
    /\ dest_messages = {}
    /\ dest_threads = {}
    /\ lost_count = [i \in 1..Len(channel.messages) |-> 0]
    /\ next_id = 1
    /\ completed = FALSE

\* An export whose messages are plain messages (no thread) with up to two
\* attachments each, of a configured channel.
InitFiles ==
    /\ \E archived \in SeqUpTo([ts : TsSet, reply_count : {None}, thread_ts : {None},
                                 files : SeveralFileLists], MaxMsgs) :
           channel = [id |-> SlackChannelId, name |-> SlackChannelName,
                      messages |-> sort_by_key(archived)]
    /\ discord_channels = [n \in {SlackChannelName} |-> DiscordChannelId]
    /\ slack_messages = <<channel>>
    /\ rest = <<>>
    /\ guild = DeployedGuild(discord_channels)
    /\ config = DeployedConfig(discord_channels)
    /\ users = EmptyMap
    /\ text = <<>>
    /\ content = None
    /\ bound_ts = <<>>
    /\ decoded_ts = <<>>
    /\ posts_table = <<>>
    /\ files_table = [u \in Urls |-> None]
    /\ run = 0
    /\ pc = "idle"
    /\ index = 0
    /\ result = "none"
    /\ error = ""
    /\ files = EmptyMap
    /\ target = None
    /\ msg = None
    /\ thread_id = None
    /\ log = <<>>
    /\ dest_messages = {}
    /\ dest_threads = {}
    /\ lost_count = [i \in 1..Len(channel.messages) |-> 0]
    /\ next_id = 1
    /\ completed = FALSE

\* The messages of a short channel: one ts, no attachments.
ShortMessages == {m \in Messages : m.ts = Ts(1, 0) /\ m.files = <<>>}
ShortChannels == {<<>>} \cup {<<m>> : m \in ShortMessages}

\* An export of two channels, in either order, each with at most one message
\* and each with or without a destination channel.
InitMulti ==
    /\ \E first, second \in ShortChannels, general_first \in BOOLEAN :
         LET general == [id |-> SlackChannelId, name |-> SlackChannelName,
                         messages |-> first]
             random == [id |-> OtherChannelId, name |-> OtherChannelName,
                        messages |-> second]
         IN  slack_messages = IF general_first THEN <<general, random>>
                                               ELSE <<random, general>>
    /\ channel = Head(slack_messages)
    /\ rest = <<>>
    /\ \E names \in SUBSET {SlackChannelName, OtherChannelName} :
         discord_channels = [n \in names |-> IF n = SlackChannelName
                                              THEN DiscordChannelId
                                              ELSE OtherDiscordChannelId]
    /\ guild = DeployedGuild(discord_channels)
    /\ config = DeployedConfig(discord_channels)
    /\ users = EmptyMap
    /\ text = <<>>
    /\ content = None
    /\ bound_ts = <<>>
    /\ decoded_ts = <<>>
    /\ posts_table = <<>>
    /\ files_table = [u \in Urls |-> None]
    /\ run = 0
    /\ pc = "idle"
    /\ index = 0
    /\ result = "none"
    /\ error = ""
    /\ files = EmptyMap
    /\ target = None
    /\ msg = None
    /\ thread_id = None
    /\ log = <<>>
    /\ dest_messages = {}
    /\ dest_threads = {}
    /\ lost_count = [i \in {1} |-> 0]
    /\ next_id = 1
    /\ completed = FALSE

RECURSIVE Pick(_, _, _)
\* The entries of the first k of listed whose position is in I, in order.
Pick(listed, I, k) ==
    IF k = 0 THEN <<>>
    ELSE IF k \in I THEN Append(Pick(listed, I, k - 1), listed[k])
    ELSE Pick(listed, I, k - 1)

\* Channels a guild may hold before the tool runs: the two categories, the
\* two channels as text channels under the first category, a text channel
\* outside every category and a voice channel under the first category.
GuildChannels ==
    <<ChannelGet(CategoryName, CategoryId, "GuildCategory", None),
      ChannelGet(OtherCategoryName, OtherCategoryId, "GuildCategory", None),
      ChannelGet(SlackChannelName, DiscordChannelId, "GuildText", Some(CategoryId)),
      ChannelGet(OtherChannelName, OtherDiscordChannelId, "GuildText", Some(CategoryId)),
      ChannelGet(OtherChannelName, Id("channel", -4), "GuildText", None),
      ChannelGet(SlackChannelName, Id("channel", -5), "GuildVoice", Some(CategoryId))>>

\* The guilds: any of these channels, a channel under a category only with
\* its category.
Guilds ==
    {g \in {Pick(GuildChannels, I, Len(GuildChannels)) : I \in SUBSET DOMAIN GuildChannels} :
        \A k \in DOMAIN g :
            IsSome(g[k].parent_id) => \E j \in DOMAIN g : g[j].id = Unwrap(g[k].parent_id)}

\* The channel configs: any of the two channels, each under either category.
Configs ==
    UNION {[names -> {CategoryName, OtherCategoryName}] :
             names \in SUBSET {SlackChannelName, OtherChannelName}}

\* The provisioner alone: an export of the two channels, any config, any guild.
InitProvision ==
    /\ slack_messages =
           <<[id |-> SlackChannelId, name |-> SlackChannelName, messages |-> <<>>],
             [id |-> OtherChannelId, name |-> OtherChannelName, messages |-> <<>>]>>
    /\ channel = Head(slack_messages)
    /\ rest = <<>>
    /\ discord_channels = EmptyMap
    /\ guild \in Guilds
    /\ config \in Configs
    /\ users = EmptyMap
    /\ text = <<>>
    /\ content = None
    /\ bound_ts = <<>>
    /\ decoded_ts = <<>>
    /\ posts_table = <<>>
    /\ files_table = [u \in Urls |-> None]
    /\ run = 0
    /\ pc = "idle"
    /\ index = 0
    /\ result = "none"
    /\ error = ""
    /\ files = EmptyMap
    /\ target = None
    /\ msg = None
    /\ thread_id = None
    /\ log = <<>>
    /\ dest_messages = {}
    /\ dest_threads = {}
    /\ lost_count = [i \in {} |-> 0]
    /\ next_id = 1
    /\ completed = FALSE

\* The rendering alone: any user map, a message of any author and text.
InitRender ==
    /\ channel = [id |-> SlackChannelId, name |-> SlackChannelName, messages |-> <<>>]
    /\ discord_channels = EmptyMap
    /\ slack_messages = <<channel>>
    /\ rest = <<>>
    /\ guild = <<>>
    /\ config = EmptyMap
    /\ users \in UserMaps
    /\ \E user \in UserIds, body \in Texts : text = Format(user, Date, body)
    /\ content = None
    /\ bound_ts = <<>>
    /\ decoded_ts = <<>>
    /\ posts_table = <<>>
    /\ files_table = [u \in Urls |-> None]
    /\ run = 0
    /\ pc = "idle"
    /\ index = 0
    /\ result = "none"
    /\ error = ""
    /\ files = EmptyMap
    /\ target = None
    /\ msg = None
    /\ thread_id = None
    /\ log = <<>>
    /\ dest_messages = {}
    /\ dest_threads = {}
    /\ lost_count = [i \in {} |-> 0]
    /\ next_id = 1
    /\ completed = FALSE

\* Timestamps before and after the epoch whose seconds and nanoseconds have
\* one to three digits.
KeyTimestamps == {Ts(s, n) : s \in {-1, 0, 1, 10, 11}, n \in {0, 1, 10, 100}}

\* The encoding alone: a channel of two messages of any of these timestamps.
InitKey ==
    /\ \E a, b \in KeyTimestamps :
           channel = [id |-> SlackChannelId, name |-> SlackChannelName,
                      messages |-> sort_by_key(
                          <<[ts |-> a, reply_count |-> None, thread_ts |-> None,
                             files |-> <<>>],
                            [ts |-> b, reply_count |-> None, thread_ts |-> None,
                             files |-> <<>>]>>)]
    /\ discord_channels = [n \in {SlackChannelName} |-> DiscordChannelId]
    /\ slack_messages = <<channel>>
    /\ rest = <<>>
    /\ guild = DeployedGuild(discord_channels)
    /\ config = DeployedConfig(discord_channels)
    /\ users = EmptyMap
    /\ text = <<>>
    /\ content = None
    /\ bound_ts = <<>>
    /\ decoded_ts = <<>>
    /\ posts_table = <<>>
    /\ files_table = [u \in Urls |-> None]
    /\ run = 0
    /\ pc = "idle"
    /\ index = 0
    /\ result = "none"
    /\ error = ""
    /\ files = EmptyMap
    /\ target = None
    /\ msg = None
    /\ thread_id = None
    /\ log = <<>>
    /\ dest_messages = {}
    /\ dest_threads = {}
    /\ lost_count = [i \in {} |-> 0]
    /\ next_id = 1
    /\ completed = FALSE

\* The cache alone: an empty files table, nothing to replay.
InitCache ==
    /\ channel = [id |-> SlackChannelId, name |-> SlackChannelName, messages |-> <<>>]
    /\ discord_channels = EmptyMap
    /\ slack_messages = <<channel>>
    /\ rest = <<>>
    /\ guild = DeployedGuild(discord_channels)
    /\ config = DeployedConfig(discord_channels)
    /\ users = EmptyMap
    /\ text = <<>>
    /\ content = None
    /\ bound_ts = <<>>
    /\ decoded_ts = <<>>
    /\ posts_table = <<>>
    /\ files_table = [u \in Urls |-> None]
    /\ run = 0
    /\ pc = "idle"
    /\ index = 0
    /\ result = "none"
    /\ error = ""
    /\ files = EmptyMap
    /\ target = None
    /\ msg = None
    /\ thread_id = None
    /\ log = <<>>
    /\ dest_messages = {}
    /\ dest_threads = {}
    /\ lost_count = [i \in {} |-> 0]
    /\ next_id = 1
    /\ completed = FALSE

\* -------------------------------------------------------------- actions

\* The message post_channel's loop is at.
Current == channel.messages[index]

\* "if let Some(thread_ts) = thread_ts && reply_count.is_none()".
IsReply(m) == IsSome(m.thread_ts) /\ ~IsSome(m.reply_count)

\* A thread for every message that carries a reply_count, zero included.
OpensThreadOnZero(m) == IsSome(m.reply_count)

\* "if let Some(count) = reply_count && *count > 0".
OpensThread(m) == IsSome(m.reply_count) /\ Unwrap(m.reply_count) > 0

\* discord_channels.get(&channel.name): the destination channel's id.
discord_channel_id == discord_channels[channel.name]

NoLocals == files' = EmptyMap /\ target' = None /\ msg' = None /\ thread_id' = None

\* An error that is noted and passed over: the loop goes on with the next
\* message.
FailAndContinue(kind) ==
    /\ error' = kind
    /\ NoLocals
    /\ UNCHANGED completed
    /\ IF index < Len(channel.messages)
       THEN index' = index + 1 /\ pc' = "lookup" /\ result' = "running"
       ELSE index' = index /\ pc' = "idle" /\ result' = "Err"

\* A "?" that returns the error: post_channel ends, main exits non-zero.
Fail(kind) ==
    /\ pc' = "idle"
    /\ result' = "Err"
    /\ error' = kind
    /\ NoLocals
    /\ UNCHANGED <<index, completed>>

\* The end of the loop body: on to the next message, or Ok(()) after the last.
NextMessage ==
    /\ NoLocals
    /\ error' = ""
    /\ IF index < Len(channel.messages)
       THEN index' = index + 1 /\ pc' = "lookup" /\ result' = "running"
            /\ UNCHANGED completed
       ELSE index' = index /\ pc' = "idle" /\ result' = "Ok" /\ completed' = TRUE

\* A main that calls post_channel for every channel: for a channel without
\* destination channel post_channel returns an error.
EnterChannelUnchecked(c) ==
    IF c.name \notin DOMAIN discord_channels
    THEN index' = 0 /\ pc' = "idle" /\ result' = "Err" /\ UNCHANGED completed
    ELSE IF c.messages = <<>>
    THEN index' = 0 /\ pc' = "idle" /\ result' = "Ok" /\ completed' = TRUE
    ELSE index' = 1 /\ pc' = "lookup" /\ result' = "running" /\ UNCHANGED completed

\* The body of main's loop for channel c: "continue" for a channel that has
\* no destination channel, post_channel for the others, which is at its first
\* message or, for a channel without messages, returns Ok at once.
EnterChannel(c) ==
    IF c.name \notin DOMAIN discord_channels
    THEN index' = 0 /\ pc' = "idle" /\ result' = "Ok" /\ UNCHANGED completed
    ELSE IF c.messages = <<>>
    THEN index' = 0 /\ pc' = "idle" /\ result' = "Ok" /\ completed' = TRUE
    ELSE index' = 1 /\ pc' = "lookup" /\ result' = "running" /\ UNCHANGED completed

\* main: a run of the tool, which begins the loop over the channels of the
\* export at the first channel.  A run begins when the run before has ended:
\* with an error, or after the last channel.
main ==
    /\ pc = "idle"
    /\ run < MaxRuns
    /\ result = "Ok" => rest = <<>>
    /\ run' = run + 1
    /\ log' = <<>>
    /\ NoLocals
    /\ error' = ""
    /\ channel' = Head(slack_messages)
    /\ rest' = Tail(slack_messages)
    /\ EnterChannel(channel')
    /\ UNCHANGED <<discord_channels, slack_messages, guild, config, rendering, binding,
                   posts_table, files_table, destination, lost_count>>

\* main, the loop's next iteration: after a channel that was skipped or whose
\* post_channel returned Ok, on to the next channel of the export.
main_next ==
    /\ pc = "idle"
    /\ result = "Ok"
    /\ rest # <<>>
    /\ NoLocals
    /\ error' = ""
    /\ channel' = Head(rest)
    /\ rest' = Tail(rest)
    /\ EnterChannel(channel')
    /\ UNCHANGED <<discord_channels, slack_messages, guild, config, rendering, binding,
                   posts_table, files_table, run, log, destination, lost_count>>

\* post_channel, the dedup check: is the message in table posts already?
lookup ==
    /\ pc = "lookup"
    /\ \E db_ok \in BOOLEAN :
         LET message_on_db ==
                 fetch_optional(select_posts(posts_table, Current.ts, channel.id))
         IN  IF ~db_ok THEN Fail("Select")
             ELSE IF message_on_db = None
             THEN /\ pc' = "fetch"
                  /\ UNCHANGED <<index, result, error, locals, completed>>
             ELSE IF IsSome(Unwrap(message_on_db).discord_thread_id)
             THEN /\ pc' = "get_channel"
                  /\ target' = Unwrap(message_on_db).discord_thread_id
                  /\ UNCHANGED <<index, result, error, files, msg, thread_id, completed>>
             ELSE NextMessage
    /\ UNCHANGED <<export, posts_table, files_table, run, log, destination, lost_count>>

\* A message found in table posts with a thread id is passed over without a
\* call.
get_channel_skipped ==
    /\ pc = "get_channel"
    /\ NextMessage
    /\ UNCHANGED <<export, posts_table, files_table, run, log, destination, lost_count>>

\* post_channel, a message found in table posts with a thread id:
\* discord::get_channel on that thread.
get_channel ==
    /\ pc = "get_channel"
    /\ \E ok \in BOOLEAN :
         /\ log' = Append(log, Event("get_channel", index, Unwrap(target), None, ok))
         /\ IF ok THEN NextMessage ELSE Fail("GetChannel")
    /\ UNCHANGED <<export, posts_table, files_table, run, destination, lost_count>>

\* post_channel, the attachments: fetch_file for every hosted file, then the
\* collect into a Result<HashMap>, whose "?" returns the first error.
fetch_files ==
    /\ pc = "fetch"
    /\ LET hosted == HostedOf(Current.files)
       IN  \E outs \in [1..Len(hosted) -> FetchOutcomes] :
             LET got == FetchEach(hosted, outs, Len(hosted), files_table)
             IN  /\ files_table' = got.table
                 /\ IF FirstErr(got.results) # ""
                    THEN Fail(FirstErr(got.results))
                    ELSE /\ files' = CollectMap(got.results, Len(got.results))
                         /\ IF IsReply(Current)
                            THEN pc' = "parent" /\ target' = None
                            ELSE pc' = "post" /\ target' = Some(discord_channel_id)
                         /\ UNCHANGED <<index, result, error, msg, thread_id, completed>>
    /\ UNCHANGED <<export, posts_table, run, log, destination, lost_count>>

\* A reply sent to the destination channel instead of the parent's thread.
ResolveThreadToChannel(rows) ==
    IF rows = <<>> THEN [err |-> "RowNotFound", id |-> None]
    ELSE IF Head(rows).discord_thread_id = None
         THEN [err |-> "ThreadNotFound", id |-> None]
    ELSE [err |-> "", id |-> Some(discord_channel_id)]

\* A reply without a parent row falls back to the destination channel.
ResolveThreadOrphanToChannel(rows) ==
    IF rows = <<>> THEN [err |-> "", id |-> Some(discord_channel_id)]
    ELSE IF Head(rows).discord_thread_id = None
         THEN [err |-> "ThreadNotFound", id |-> None]
    ELSE [err |-> "", id |-> Head(rows).discord_thread_id]

\* A reply whose parent row has no thread falls back to the destination channel.
ResolveThreadNullToChannel(rows) ==
    IF rows = <<>> THEN [err |-> "RowNotFound", id |-> None]
    ELSE IF Head(rows).discord_thread_id = None
         THEN [err |-> "", id |-> Some(discord_channel_id)]
    ELSE [err |-> "", id |-> Head(rows).discord_thread_id]

\* post_channel, the reply branch up to the post: fetch_one of the parent's
\* row, whose absence is sqlx's RowNotFound, then the with_context on the
\* row's discord_thread_id, whose absence is the "thread .. not found" error.
ResolveThread(rows) ==
    IF rows = <<>> THEN [err |-> "RowNotFound", id |-> None]
    ELSE IF Head(rows).discord_thread_id = None
         THEN [err |-> "ThreadNotFound", id |-> None]
    ELSE [err |-> "", id |-> Head(rows).discord_thread_id]

\* post_channel, a reply: the parent's row and the thread to post into.
parent ==
    /\ pc = "parent"
    /\ \E db_ok \in BOOLEAN :
         LET thread == ResolveThread(
                 select_posts(posts_table, Unwrap(Current.thread_ts), channel.id))
         IN  IF ~db_ok THEN Fail("Select")
             ELSE IF thread.err # "" THEN Fail(thread.err)
             ELSE /\ pc' = "post"
                  /\ target' = thread.id
                  /\ UNCHANGED <<index, result, error, files, msg, thread_id, completed>>
    /\ UNCHANGED <<export, posts_table, files_table, run, log, destination, lost_count>>

\* What post_channel does after a successful post_message: the reply branch
\* inserts, the other branch opens a thread first when reply_count > 0.
AfterPost(m) == IF ~IsReply(m) /\ OpensThread(m) THEN "start_thread" ELSE "insert"

\* discord::post_message, into the parent's thread (reply branch) or into the
\* destination channel (the other branch).
post_message ==
    /\ pc = "post"
    /\ \E ok \in BOOLEAN :
         IF ok
         THEN LET id == Id("message", next_id)
              IN  /\ dest_messages' = dest_messages \cup
                         {[id |-> id, channel_id |-> Unwrap(target), source |-> index,
                           files |-> files]}
                  /\ next_id' = next_id + 1
                  /\ msg' = Some(id)
                  /\ log' = Append(log, Event("post_message", index, Unwrap(target), Some(id), TRUE))
                  /\ pc' = AfterPost(Current)
                  /\ UNCHANGED <<index, result, error, files, target, thread_id, completed,
                                 dest_threads>>
         ELSE /\ log' = Append(log, Event("post_message", index, Unwrap(target), None, FALSE))
              /\ Fail("PostMessage")
              /\ UNCHANGED destination
    /\ UNCHANGED <<export, posts_table, files_table, run, lost_count>>

\* discord::start_thread on the message just posted.
start_thread ==
    /\ pc = "start_thread"
    /\ \E ok \in BOOLEAN :
         IF ok
         THEN LET id == Id("thread", next_id)
              IN  /\ dest_threads' = dest_threads \cup
                         {[id |-> id, channel_id |-> discord_channel_id,
                           message_id |-> Unwrap(msg)]}
                  /\ next_id' = next_id + 1
                  /\ thread_id' = Some(id)
                  /\ log' = Append(log, Event("start_thread", index, discord_channel_id, Some(id), TRUE))
                  /\ pc' = "insert"
                  /\ UNCHANGED <<index, result, error, files, target, msg, completed,
                                 dest_messages, lost_count>>
         ELSE /\ log' = Append(log, Event("start_thread", index, discord_channel_id, None, FALSE))
              /\ lost_count' = [lost_count EXCEPT ![index] = @ + 1]
              /\ Fail("StartThread")
              /\ UNCHANGED destination
    /\ UNCHANGED <<export, posts_table, files_table, run>>

\* The reply's row with the thread it was posted into as its thread id.
ReplyRecordWithThread(msg_id, ts, discord_thread_id) ==
    PostRecord(msg_id, channel.id, discord_channel_id, EncodeTs(ts), discord_thread_id)

\* The reply's row with the thread it was posted into as its channel id.
ReplyRecordInThread(msg_id, ts, discord_thread_id) ==
    PostRecord(msg_id, channel.id, Unwrap(discord_thread_id), EncodeTs(ts), None)

\* The row the reply branch inserts: "insert into posts values
\* (msg.id, channel.id, discord_channel_id, ts, None::<String>)".
ReplyRecord(msg_id, ts, discord_thread_id) ==
    PostRecord(msg_id, channel.id, discord_channel_id, EncodeTs(ts), None)

\* The row the other branch inserts: "insert into posts values
\* (msg.id, channel.id, discord_channel_id, ts, thread_id)".
RootRecord(msg_id, ts, started) ==
    PostRecord(msg_id, channel.id, discord_channel_id, EncodeTs(ts), started)

\* An insert that replaces the rows the channel has in table posts.
insert_replacing ==
    /\ pc = "insert"
    /\ \E db_ok \in BOOLEAN :
         IF db_ok
         THEN LET row == IF IsReply(Current)
                         THEN ReplyRecord(Unwrap(msg), Current.ts, target)
                         ELSE RootRecord(Unwrap(msg), Current.ts, thread_id)
              IN  /\ posts_table' =
                         Append(SelectSeq(posts_table,
                                          LAMBDA r : r.slack_channel_id # channel.id), row)
                  /\ log' = Append(log, Event("insert", index, discord_channel_id, msg, TRUE))
                  /\ pc' = "sleep"
                  /\ UNCHANGED <<index, result, error, locals, completed, lost_count>>
         ELSE /\ log' = Append(log, Event("insert", index, discord_channel_id, msg, FALSE))
              /\ lost_count' = [lost_count EXCEPT ![index] = @ + 1]
              /\ Fail("Insert")
              /\ UNCHANGED posts_table
    /\ UNCHANGED <<export, files_table, run, destination>>

\* post_channel, the insert into table posts that follows the post.
insert ==
    /\ pc = "insert"
    /\ \E db_ok \in BOOLEAN :
         IF db_ok
         THEN LET row == IF IsReply(Current)
                         THEN ReplyRecord(Unwrap(msg), Current.ts, target)
                         ELSE RootRecord(Unwrap(msg), Current.ts, thread_id)
              IN  /\ posts_table' = Append(posts_table, row)
                  /\ log' = Append(log, Event("insert", index, discord_channel_id, msg, TRUE))
                  /\ pc' = "sleep"
                  /\ UNCHANGED <<index, result, error, locals, completed, lost_count>>
         ELSE /\ log' = Append(log, Event("insert", index, discord_channel_id, msg, FALSE))
              /\ lost_count' = [lost_count EXCEPT ![index] = @ + 1]
              /\ Fail("Insert")
              /\ UNCHANGED posts_table
    /\ UNCHANGED <<export, files_table, run, destination>>

\* The loop goes on after the insert without a delay.
sleep_skipped ==
    /\ pc = "sleep"
    /\ NextMessage
    /\ UNCHANGED <<export, posts_table, files_table, run, log, destination, lost_count>>

\* post_channel, sleep(Duration::from_millis(1000)) after the insert.
sleep ==
    /\ pc = "sleep"
    /\ log' = Append(log, Event("sleep", index, discord_channel_id, None, TRUE))
    /\ NextMessage
    /\ UNCHANGED <<export, posts_table, files_table, run, destination, lost_count>>

Next ==
    \/ main
    \/ lookup
    \/ get_channel
    \/ fetch_files
    \/ parent
    \/ post_message
    \/ start_thread
    \/ insert
    \/ sleep

Spec == Init /\ [][Next]_vars

\* The replay of an export of two channels.
NextMulti ==
    \/ Next
    \/ main_next

SpecMulti == InitMulti /\ [][NextMulti]_vars

\* main, up to the loop: a run of the tool calls provision_channels, whose
\* error ends the run and whose map becomes discord_channels.  The log gets
\* the channels the run created.
provision ==
    /\ pc = "idle"
    /\ run < MaxRuns
    /\ run' = run + 1
    /\ \E order \in Orders(CategoriesOf(config)) :
       \E gets \in 0..2 :
       \E posts \in 0..(Len(slack_messages) + Cardinality(CategoriesOf(config))) :
         LET got == provision_channels(guild, next_id, slack_messages, config, order,
                                       [gets |-> gets, posts |-> posts])
         IN  /\ guild' = got.guild
             /\ next_id' = got.next
             /\ log' = [k \in 1..Len(got.created) |->
                           Event("post_channel", 0, got.created[k].name,
                                 Some(got.created[k].id), TRUE)]
             /\ error' = got.err
             /\ IF got.err = ""
                THEN /\ result' = "Ok"
                     /\ discord_channels' = [n \in DOMAIN got.map |-> got.map[n].id]
                ELSE /\ result' = "Err"
                     /\ UNCHANGED discord_channels
             /\ completed' = (completed \/ got.err = "")
    /\ UNCHANGED <<channel, slack_messages, rest, config, rendering, binding, posts_table,
                   files_table, pc, index, locals, dest_messages, dest_threads, lost_count>>

NextProvision == provision

\* Runs of the tool over an export without messages: the provisioner alone.
SpecProvision == InitProvision /\ [][NextProvision]_vars

\* Every reply comes after a message of its thread_ts that opens a thread.
WellFormed(messages) ==
    \A i \in 1..Len(messages) :
        IsReply(messages[i]) =>
            \E j \in 1..(i - 1) :
                /\ messages[j].ts = Unwrap(messages[i].thread_ts)
                /\ OpensThread(messages[j])

\* The replay that is run again and again: a well-formed channel that has a
\* destination channel.
InitRerun ==
    /\ Init
    /\ channel.name \in DOMAIN discord_channels
    /\ WellFormed(channel.messages)

\* main, once more: the tool is run again after a run that failed.  The runs
\* after the first MaxRuns are not counted.
main_again ==
    /\ pc = "idle"
    /\ run = MaxRuns
    /\ result = "Err"
    /\ log' = <<>>
    /\ NoLocals
    /\ error' = ""
    /\ channel' = Head(slack_messages)
    /\ rest' = Tail(slack_messages)
    /\ EnterChannel(channel')
    /\ UNCHANGED <<discord_channels, slack_messages, guild, config, rendering, binding,
                   posts_table, files_table, run, destination, lost_count>>

\* The errors of fetch_file, post_message, start_thread and of the database.
TransientErrors == FetchErrors \cup {"PostMessage", "StartThread", "Insert", "Select"}

\* These failures stop: from run MaxRuns on no step ends in one of them.
FailuresStop == run = MaxRuns => error' \notin TransientErrors

NextRerun ==
    \/ main
    \/ main_again
    \/ lookup /\ FailuresStop
    \/ get_channel
    \/ fetch_files /\ FailuresStop
    \/ parent /\ FailuresStop
    \/ post_message /\ FailuresStop
    \/ start_thread /\ FailuresStop
    \/ insert /\ FailuresStop
    \/ sleep

\* The tool is rerun as long as a run fails, and every run goes on to its end.
SpecRerun == InitRerun /\ [][NextRerun]_vars /\ WF_vars(NextRerun)

\* post_channel, the content of the post: the formatted text with the ids
\* of the user map replaced, in the order the HashMap happens to iterate.
render ==
    /\ content = None
    /\ \E order \in Orders(DOMAIN users) :
         content' = Some(replace_slack_id_to_real_name(users, order, text))
    /\ UNCHANGED <<channel, discord_channels, slack_messages, rest, guild, config, users,
                   text, binding, posts_table, files_table, run, pc, index, result, error, locals,
                   log, destination, lost_count, completed>>

NextRender == render

\* The rendering of one message's text.
SpecRender == InitRender /\ [][NextRender]_vars

\* sqlx::Encode for TimeStamp: the next message's ts is bound to a query.
encode_by_ref ==
    /\ Len(bound_ts) < Len(channel.messages)
    /\ bound_ts' = Append(bound_ts, EncodeTs(channel.messages[Len(bound_ts) + 1].ts))
    /\ UNCHANGED <<channel, discord_channels, slack_messages, rest, guild, config,
                   rendering, decoded_ts, posts_table, files_table, run, pc, index,
                   result, error, locals, log, destination, lost_count, completed>>

\* sqlx::Decode for TimeStamp: the next bound text is read back.
decode ==
    /\ Len(decoded_ts) < Len(bound_ts)
    /\ decoded_ts' = Append(decoded_ts, parse_timestamp(bound_ts[Len(decoded_ts) + 1]))
    /\ UNCHANGED <<channel, discord_channels, slack_messages, rest, guild, config,
                   rendering, bound_ts, posts_table, files_table, run, pc, index,
                   result, error, locals, log, destination, lost_count, completed>>

NextKey ==
    \/ encode_by_ref
    \/ decode

\* The encoding of timestamps and its decoding.
SpecKey == InitKey /\ [][NextKey]_vars

\* The calls of fetch_file made so far in a behaviour of the cache alone.
CallsOf(events) == SelectSeq(events, LAMBDA e : e.op = "fetch_file")

\* One call of Db::fetch_file, for any url and with any answer of the
\* database and the network; the log gets the request, if one was sent, and
\* the call.
fetch_file_call ==
    /\ Len(CallsOf(log)) < MaxCalls
    /\ \E url \in Urls, out \in FetchOutcomes :
         LET got == fetch_file(files_table, url, out)
             sent == IF got.net
                     THEN <<CacheEvent("http_get", url, None,
                                       IF out.err = "FetchFromUrl" THEN out.err ELSE "")>>
                     ELSE <<>>
         IN  /\ files_table' = got.table
             /\ log' = log \o sent \o <<CacheEvent("fetch_file", url, got.row, got.err)>>
             /\ result' = IF got.ok THEN "Ok" ELSE "Err"
             /\ error' = got.err
    /\ UNCHANGED <<export, posts_table, run, pc, index, locals, destination, lost_count,
                   completed>>

NextCache == fetch_file_call

\* Any sequence of fetch_file calls on one files table.
SpecCache == InitCache /\ [][NextCache]_vars

\* The steps a message without thread goes through.
NextFiles ==
    \/ main
    \/ lookup
    \/ fetch_files
    \/ post_message
    \/ insert
    \/ sleep

\* The replay of an export of messages with several attachments.
SpecFiles == InitFiles /\ [][NextFiles]_vars

\* ------------------------------------------------------------ properties

MsgIndexes == 1..Len(channel.messages)

\* Successful destination post_message calls made for message i, all runs.
post_count(i) == Cardinality({d \in dest_messages : d.source = i})

\* The key of each timestamp of the export.
KeyOf == [t \in TsSet |-> EncodeTs(t)]

\* The rows of table posts keyed by message i's (channel id, ts).
RowsOf(i) ==
    LET key == KeyOf[channel.messages[i].ts]
    IN  SelectSeq(posts_table, LAMBDA r : r.slack_ts = key /\ r.slack_channel_id = channel.id)

\* The successful events of one operation in the current run's log.
Done(op) == SelectSeq(log, LAMBDA e : e.op = op /\ e.ok)
DoneFor(op, i) == SelectSeq(log, LAMBDA e : e.op = op /\ e.ok /\ e.index = i)

\* C1 (as claimed): over any sequence of runs in which any fetch, post,
\* start_thread or insert may fail, no message gets more than one successful
\* destination post.
C1_AtMostOnePost == \A i \in MsgIndexes : post_count(i) <= 1

\* C1 (amended): the successful posts of a message exceed one by at most the
\* number of runs that failed between the message's post and its insert (a
\* failed start_thread or a failed insert).
C1_PostsBoundedByLostRuns ==
    \A i \in MsgIndexes : post_count(i) <= 1 + lost_count[i]

\* C1 witness: a message posted twice, after one run lost its post.
C1_Witness ==
    \E i \in MsgIndexes : post_count(i) = 2 /\ lost_count[i] = 1 /\ RowsOf(i) # <<>>

\* Message i is the first message of the channel with its ts.
FirstOfTs(i) == \A j \in 1..(i - 1) : channel.messages[j].ts # channel.messages[i].ts

\* C2 (as claimed): after a run of post_channel has finished without error,
\* every message has exactly one destination post (read for the messages
\* that do not repeat the ts of an earlier message).
C2_ExactlyOnePostAfterCompletedRun ==
    completed => \A i \in MsgIndexes : FirstOfTs(i) => post_count(i) = 1

\* C2 (amended): after a run of post_channel has finished without error, no
\* later step posts a message, opens a thread or adds a row to table posts;
\* every message's key has exactly one row, and a message's posts are one for
\* the first message of its ts plus one per run that failed between its post
\* and its insert.
C2_CompletedReplayIsFinal ==
    /\ [][completed => /\ dest_messages' = dest_messages
                       /\ dest_threads' = dest_threads
                       /\ posts_table' = posts_table]_vars
    /\ [](completed =>
            \A i \in MsgIndexes :
                /\ Len(RowsOf(i)) = 1
                /\ post_count(i) = (IF FirstOfTs(i) THEN 1 ELSE 0) + lost_count[i])

\* C2 witness: a further run, after a completed one, has gone through the
\* whole channel again.
C2_Witness ==
    /\ completed
    /\ pc = "lookup"
    /\ index = Len(channel.messages)
    /\ index >= 2
    /\ Len(posts_table) = 2

\* C3: the rows of table posts, which stand in the order of their creation,
\* are in strictly increasing order of source timestamp: of two messages with
\* a.ts < b.ts that both have a row, a's row comes first.
C3_LedgerInTimestampOrder ==
    \A j, k \in 1..Len(posts_table) :
        j < k =>
          \A a, b \in MsgIndexes :
              (/\ posts_table[j].slack_ts = KeyOf[channel.messages[a].ts]
               /\ posts_table[k].slack_ts = KeyOf[channel.messages[b].ts])
              => TsLess(channel.messages[a].ts, channel.messages[b].ts)

\* C3 witness: two rows, created in two different runs.
C3_Witness ==
    /\ Len(posts_table) = 2
    /\ run >= 2
    /\ Len(Done("insert")) = 1

\* C4: every reply that is posted is posted into the thread whose id the row
\* of its parent (channel id, thread_ts) holds, a thread start_thread opened.
C4_ReplyPostedIntoParentThread ==
    \A d \in dest_messages :
        LET m == channel.messages[d.source]
        IN  IsReply(m) =>
              LET rows == select_posts(posts_table, Unwrap(m.thread_ts), channel.id)
              IN  /\ rows # <<>>
                  /\ Head(rows).discord_thread_id # None
                  /\ Head(rows).discord_thread_id = Some(d.channel_id)
                  /\ \E t \in dest_threads : t.id = d.channel_id

\* C4 witness: a reply has been posted.
C4_Witness ==
    \E d \in dest_messages : IsReply(channel.messages[d.source])

\* The rows of the parent of reply i, and of the reply post_channel is at.
ParentRowsOf(i) ==
    select_posts(posts_table, Unwrap(channel.messages[i].thread_ts), channel.id)
ParentRows == ParentRowsOf(index)

\* The step fails the run, posts nothing and writes no row.
FailsWithoutPost ==
    /\ pc' = "idle"
    /\ result' = "Err"
    /\ dest_messages' = dest_messages
    /\ dest_threads' = dest_threads
    /\ posts_table' = posts_table
    /\ Done("post_message")' = Done("post_message")

\* C5: when post_channel resolves the parent of a reply and table posts has no
\* row for (channel id, thread_ts), the run fails with an error, nothing is
\* posted for the reply and no row is written for it.
C5_OrphanReplyFails ==
    /\ [][(pc = "parent" /\ ParentRows = <<>>) => FailsWithoutPost]_vars
    /\ [](\A i \in MsgIndexes :
             (IsReply(channel.messages[i]) /\ ParentRowsOf(i) = <<>>)
             => post_count(i) = 0)

\* C5 witness: a run has failed on a reply whose parent has no row.
C5_Witness ==
    /\ pc = "idle"
    /\ result = "Err"
    /\ error = "RowNotFound"
    /\ IsReply(Current)
    /\ ParentRows = <<>>
    /\ post_count(index) = 0
    /\ RowsOf(index) = <<>>

\* C6: when the row of a reply's parent has a null thread id, the run fails
\* with an error before any destination post, and no row is written for the
\* reply.
C6_MissingThreadFails ==
    /\ [][(/\ pc = "parent"
            /\ ParentRows # <<>>
            /\ Head(ParentRows).discord_thread_id = None) => FailsWithoutPost]_vars
    /\ [](\A i \in MsgIndexes :
             (/\ IsReply(channel.messages[i])
              /\ ParentRowsOf(i) # <<>>
              /\ Head(ParentRowsOf(i)).discord_thread_id = None)
             => post_count(i) = 0)

\* C6 witness: a run has failed on a reply whose parent, posted with
\* reply_count = 0, has a row without a thread id.
C6_Witness ==
    /\ pc = "idle"
    /\ result = "Err"
    /\ error = "ThreadNotFound"
    /\ IsReply(Current)
    /\ ParentRows # <<>>
    /\ Head(ParentRows).discord_thread_id = None
    /\ \E j \in 1..(index - 1) :
           /\ channel.messages[j].ts = Unwrap(Current.thread_ts)
           /\ channel.messages[j].reply_count = Some(0)
    /\ post_count(index) = 0
    /\ RowsOf(index) = <<>>

\* C7 (as claimed): the row recorded for a posted reply carries the thread the
\* reply was posted into, the parent's thread, as its thread id.
C7_ReplyRowCarriesParentThread ==
    \A k \in 1..Len(posts_table) : \A d \in dest_messages :
        (posts_table[k].id = d.id /\ IsReply(channel.messages[d.source]))
        => posts_table[k].discord_thread_id = Some(d.channel_id)

\* C7 (amended): the row recorded for a posted reply carries a null thread id
\* and the mapped destination channel as its channel id; the thread the reply
\* was posted into is held by the parent's row only.
C7_ReplyRowHasNoThread ==
    \A k \in 1..Len(posts_table) : \A d \in dest_messages :
        (posts_table[k].id = d.id /\ IsReply(channel.messages[d.source]))
        => /\ posts_table[k].discord_thread_id = None
           /\ posts_table[k].discord_channel_id = discord_channel_id
           /\ posts_table[k].slack_ts = EncodeTs(channel.messages[d.source].ts)
           /\ Head(select_posts(posts_table, Unwrap(channel.messages[d.source].thread_ts),
                                channel.id)).discord_thread_id = Some(d.channel_id)

\* C7 witness: the row of a posted reply is in table posts.
C7_Witness ==
    \E k \in 1..Len(posts_table) : \E d \in dest_messages :
        posts_table[k].id = d.id /\ IsReply(channel.messages[d.source])

\* reply_count is present and greater than zero.
HasReplies(m) == m.reply_count # None /\ m.reply_count # Some(0)

\* The destination messages posted for messages of the other, non-reply branch.
PlainPosts == {d \in dest_messages : ~IsReply(channel.messages[d.source])}

\* C8: for a message posted through the non-reply branch, a thread is opened
\* on the posted message and its id stored in the message's row if and only if
\* reply_count is present and greater than zero; otherwise no start_thread
\* call is made for it and the row's thread id is null.
C8_ThreadOpenedIffReplyCountPositive ==
    /\ \A d \in PlainPosts : \A k \in 1..Len(posts_table) :
           posts_table[k].id = d.id =>
             IF HasReplies(channel.messages[d.source])
             THEN \E t \in dest_threads :
                     /\ posts_table[k].discord_thread_id = Some(t.id)
                     /\ t.message_id = d.id
                     /\ t.channel_id = discord_channel_id
             ELSE posts_table[k].discord_thread_id = None
    /\ \A d \in dest_messages :
           (IsReply(channel.messages[d.source]) \/ ~HasReplies(channel.messages[d.source]))
           => ~\E t \in dest_threads : t.message_id = d.id
    /\ \A k \in 1..Len(log) :
           log[k].op = "start_thread" =>
             /\ ~IsReply(channel.messages[log[k].index])
             /\ HasReplies(channel.messages[log[k].index])

\* C8 witness: table posts holds the row of a message posted with
\* reply_count = 0, without a thread, and the row of one posted with
\* reply_count = 1, with its thread.
C8_Witness ==
    \E d, e \in PlainPosts : \E j, k \in 1..Len(posts_table) :
        /\ posts_table[j].id = d.id
        /\ channel.messages[d.source].reply_count = Some(0)
        /\ posts_table[j].discord_thread_id = None
        /\ posts_table[k].id = e.id
        /\ channel.messages[e.source].reply_count = Some(1)
        /\ posts_table[k].discord_thread_id # None

\* C9 (as claimed): in the log of a run, the entry after a successful
\* post_message is the insert for the same message, and a run that ended with
\* a post that has no row ended with the failure of the insert.
C9_InsertIsNextAfterPost ==
    /\ \A k \in 1..Len(log) :
           (log[k].op = "post_message" /\ log[k].ok /\ k < Len(log))
           => log[k + 1].op = "insert" /\ log[k + 1].index = log[k].index
    /\ \A i \in MsgIndexes :
           (/\ pc = "idle"
            /\ result = "Err"
            /\ DoneFor("post_message", i) # <<>>
            /\ DoneFor("insert", i) = <<>>)
           => error = "Insert"

\* C10: at the end of a run in which nothing failed, every message posted in
\* the run has exactly one insert, whose row is keyed by (source channel id,
\* ts) and carries the id the post returned and the mapped destination
\* channel; a message not posted has no insert.
C10_OneRecordPerPost ==
    (pc = "idle" /\ result = "Ok" /\ run > 0) =>
        \A i \in MsgIndexes :
            IF DoneFor("post_message", i) = <<>>
            THEN \A k \in 1..Len(log) : ~(log[k].op = "insert" /\ log[k].index = i)
            ELSE /\ Len(DoneFor("post_message", i)) = 1
                 /\ Len(DoneFor("insert", i)) = 1
                 /\ LET id == Unwrap(DoneFor("post_message", i)[1].id)
                        rows == SelectSeq(posts_table, LAMBDA r : r.id = id)
                    IN  /\ Len(rows) = 1
                        /\ DoneFor("insert", i)[1].id = Some(id)
                        /\ rows[1].slack_channel_id = channel.id
                        /\ rows[1].slack_ts = EncodeTs(channel.messages[i].ts)
                        /\ rows[1].discord_channel_id = DiscordChannelId
                        /\ RowsOf(i) = rows

\* C10 witness: a run without a failure has posted a thread root and its reply.
C10_Witness ==
    /\ pc = "idle"
    /\ result = "Ok"
    /\ Len(Done("post_message")) = 2
    /\ Len(Done("insert")) = 2
    /\ \E i \in MsgIndexes : IsReply(channel.messages[i])

\* The message whose processing failed in the run that has just ended.
FailedRun == pc = "idle" /\ result = "Err"

\* C11: once the processing of a message has failed, the run is over:
\* post_channel has returned the error, the failed call is the last call of
\* the run, and the run has made no destination call and no insert for any
\* message after the failed one.
C11_AbortOnFirstError ==
    /\ error # "" => FailedRun
    /\ \A k \in 1..Len(log) :
           /\ log[k].index <= index
           /\ ~log[k].ok => k = Len(log) /\ FailedRun

\* C11 witness: a run has failed at the first of two messages, after its
\* post, and the second message has never been posted.
C11_Witness ==
    /\ FailedRun
    /\ index = 1
    /\ Len(channel.messages) = 2
    /\ error = "Insert"
    /\ post_count(2) = 0
    /\ RowsOf(2) = <<>>

\* C12 (as claimed): a failed get_channel on the thread of a message that is
\* in table posts already does not end the run with an error.
C12_GetChannelFailureNotFatal ==
    \A k \in 1..Len(log) :
        (log[k].op = "get_channel" /\ ~log[k].ok) => result # "Err"

\* A run that began after a run over the channel had finished without error.
Rerun == completed /\ result \in {"running", "Err"}

\* The thread root and its reply of the rerun scenario.
RootAndReply ==
    /\ Len(channel.messages) = 2
    /\ channel.messages[1].reply_count = Some(1)
    /\ IsReply(channel.messages[2])
    /\ channel.messages[2].thread_ts = Some(channel.messages[1].ts)

\* C13 (as claimed): the rerun over a thread root and its reply that have
\* been replayed makes no call to the destination at all.
C13_RerunMakesNoCall == (Rerun /\ RootAndReply) => log = <<>>

\* C13 (amended): a rerun makes no call but get_channel: exactly one for
\* every message it has passed whose row holds a thread id, on that thread,
\* none for any other message; a failed get_channel is the rerun's last call.
C13_RerunOnlyChecksThreads ==
    Rerun =>
      LET thread == [i \in 1..index |-> Head(RowsOf(i)).discord_thread_id]
      IN  /\ \A k \in 1..Len(log) :
                 /\ log[k].op = "get_channel"
                 /\ thread[log[k].index] = Some(log[k].target)
                 /\ \A j \in 1..(k - 1) : log[j].index # log[k].index
          /\ \A i \in 1..index :
                 (thread[i] # None /\ (i < index \/ error = "GetChannel"))
                 => \E k \in 1..Len(log) : log[k].index = i

\* C13 witness: the rerun over the replayed root and reply has made its
\* get_channel call for the root and is at the reply.
C13_Witness ==
    /\ Rerun
    /\ RootAndReply
    /\ index = 2
    /\ pc = "lookup"
    /\ Len(log) = 1
    /\ log[1].op = "get_channel"
    /\ log[1].index = 1

\* C14: after every successful post and insert the run's next step is the
\* delay, before anything is done for the next message; and a delay is made
\* for no other reason, so none for a message that was found in table posts.
C14_DelayAfterEveryPost ==
    \A k \in 1..Len(log) :
        /\ (log[k].op = "insert" /\ log[k].ok) =>
              IF k < Len(log)
              THEN log[k + 1].op = "sleep" /\ log[k + 1].index = log[k].index
              ELSE pc = "sleep" /\ index = log[k].index
        /\ log[k].op = "sleep" =>
              /\ k > 1
              /\ log[k - 1].op = "insert"
              /\ log[k - 1].ok
              /\ log[k - 1].index = log[k].index

\* C14 witness: a second run has passed the first message, found in table
\* posts, without a delay and has posted, inserted and delayed for the second.
C14_Witness ==
    /\ run = 2
    /\ Len(channel.messages) = 2
    /\ RowsOf(1) # <<>>
    /\ DoneFor("post_message", 1) = <<>>
    /\ DoneFor("sleep", 1) = <<>>
    /\ DoneFor("insert", 2) # <<>>
    /\ DoneFor("sleep", 2) # <<>>

\* C19: in every reachable state the messages of the channel that have a row
\* in table posts are a prefix of the channel in ascending ts order: with a
\* message, every message of a smaller ts and every message before it in the
\* replay order has a row.
C19_LedgerIsPrefix ==
    LET ledgered == [i \in MsgIndexes |-> RowsOf(i) # <<>>]
    IN  \A i, j \in MsgIndexes :
            (/\ ledgered[j]
             /\ (i < j \/ TsLess(channel.messages[i].ts, channel.messages[j].ts)))
            => ledgered[i]

\* C19 witness: a run that was cut short has left the first of two messages
\* of different ts with a row and the second without.
C19_Witness ==
    /\ FailedRun
    /\ Len(channel.messages) = 2
    /\ channel.messages[1].ts # channel.messages[2].ts
    /\ RowsOf(1) # <<>>
    /\ RowsOf(2) = <<>>
    /\ index = 2

\* The hosted attachments of message i.
HostedFiles(i) == HostedOf(channel.messages[i].files)

\* C15 (as claimed): the attachments a post carries are exactly the hosted
\* attachments of its message, one payload for each, two hosted attachments
\* of one name included.
C15_OnePayloadPerHostedAttachment ==
    \A d \in dest_messages :
        /\ Cardinality(DOMAIN d.files) = Len(HostedFiles(d.source))
        /\ \A k \in 1..Len(HostedFiles(d.source)) :
               /\ HostedFiles(d.source)[k].name \in DOMAIN d.files
               /\ d.files[HostedFiles(d.source)[k].name].title = HostedFiles(d.source)[k].title

\* The calls of fetch_file on url u that returned a row, by position in log.
Fetched(u) ==
    {k \in 1..Len(log) : log[k].op = "fetch_file" /\ log[k].target = u /\ log[k].ok}

\* C16: once fetch_file(u) has returned a row, that row is what the files
\* table holds for u from then on, no later call sends a request to u, and a
\* later call returns the same row (it can fail only where it reads the
\* table, with GetSql).
C16_CacheHitIsFinal ==
    \A u \in Urls :
        \A k \in Fetched(u) :
            /\ files_table[u] = log[k].id
            /\ \A j \in (k + 1)..Len(log) :
                   log[j].target = u =>
                     /\ log[j].op = "fetch_file"
                     /\ log[j].ok \/ log[j].err = "GetSql"
                     /\ log[j].ok => log[j].id = log[k].id

\* C16 witness: a url has been fetched twice with success, with one request.
C16_Witness ==
    \E u \in Urls :
        /\ Cardinality(Fetched(u)) = 2
        /\ Len(SelectSeq(log, LAMBDA e : e.op = "http_get" /\ e.target = u)) = 1

\* C17: the files table holds a row for u only if a call of fetch_file(u) has
\* returned it, so a failed call leaves none; and every call for a url
\* without a row that gets past the select sends a fresh request, after which
\* it may return a row.
C17_FailedFetchLeavesNoEntry ==
    \A u \in Urls :
        /\ files_table[u] # None => Fetched(u) # {}
        /\ \A k \in 1..Len(log) :
               (/\ log[k].op = "fetch_file"
                /\ log[k].target = u
                /\ log[k].err # "GetSql"
                /\ \A j \in Fetched(u) : j >= k)
               => /\ k > 1
                  /\ log[k - 1].op = "http_get"
                  /\ log[k - 1].target = u

\* C17 witness: a call for a url failed after its request was sent, and a
\* later call for the same url sent a new request and returned a row.
C17_Witness ==
    \E u \in Urls :
        \E k \in Fetched(u) :
            /\ k = 4
            /\ log[1].op = "http_get" /\ log[1].target = u
            /\ log[2].op = "fetch_file" /\ log[2].target = u /\ ~log[2].ok
            /\ log[3].op = "http_get" /\ log[3].target = u
            /\ files_table[u] = log[k].id

\* Channel c has no destination channel in provision_channels' map.
Unconfigured(c) == c.name \notin DOMAIN discord_channels

\* The source channel ids of the channels without destination channel.
UnconfiguredIds == {slack_messages[k].id : k \in {j \in 1..Len(slack_messages) :
                                                    Unconfigured(slack_messages[j])}}

\* C18: a source channel without destination channel is passed over: while
\* main's loop is at it nothing is running and the run has not failed; the
\* steps into it and out of it make no destination call and write no row;
\* table posts never holds a row of it; and the step out of it, when channels
\* remain, goes on to the next channel, which is replayed from its first
\* message if it has a destination channel.
C18_UnconfiguredChannelSkipped ==
    /\ [](Unconfigured(channel) => pc = "idle" /\ result \in {"none", "Ok"})
    /\ [](\A k \in 1..Len(posts_table) :
             posts_table[k].slack_channel_id \notin UnconfiguredIds)
    /\ [][(Unconfigured(channel) \/ Unconfigured(channel')) =>
             /\ log' = log \/ log' = <<>>
             /\ posts_table' = posts_table
             /\ destination' = destination]_vars
    /\ [][(Unconfigured(channel) /\ rest # <<>>) =>
             /\ channel' = Head(rest)
             /\ run' = run
             /\ (~Unconfigured(channel') /\ channel'.messages # <<>>) =>
                    pc' = "lookup" /\ index' = 1 /\ result' = "running"]_vars

\* C18 witness: in one run the first channel, which has no destination
\* channel, was passed over and the message of the second was posted and got
\* its row.
C18_Witness ==
    /\ run = 1
    /\ Unconfigured(slack_messages[1])
    /\ slack_messages[1].messages # <<>>
    /\ channel = slack_messages[2]
    /\ Len(posts_table) = 1
    /\ posts_table[1].slack_channel_id = channel.id
    /\ Len(Done("post_message")) = 1

\* C20 (as claimed): provision_channels creates no channel for, and returns
\* in its map no channel of, a name that is no key of the config.
C20_ReturnsOnlyConfiguredChannels ==
    /\ \A k \in 1..Len(log) :
           log[k].op = "post_channel" =>
               log[k].target \in DOMAIN config \cup CategoriesOf(config)
    /\ result = "Ok" => DOMAIN discord_channels \subseteq DOMAIN config

\* C21: once a run of provision_channels has returned Ok, a further run with
\* the same channels and config against the guild as that run left it makes
\* no post_channel call, for a category or for a channel, leaves the guild as
\* it is and, when it returns Ok, returns the same map.
C21_ProvisionIdempotent ==
    [][completed =>
         /\ log' = <<>>
         /\ guild' = guild
         /\ next_id' = next_id
         /\ result' = "Ok" => discord_channels' = discord_channels]_vars

\* C21 witness: a first run created a text channel and returned it, and a
\* second run returned Ok without creating anything.
C21_Witness ==
    /\ run = 2
    /\ result = "Ok"
    /\ log = <<>>
    /\ \E k \in 1..Len(guild) :
           /\ guild[k].channel_type = "GuildText"
           /\ guild[k].id[2] >= 1
           /\ guild[k].name \in DOMAIN discord_channels
           /\ discord_channels[guild[k].name] = guild[k].id

\* The characters an id is made of, and the first token of a text: its
\* longest prefix of such characters, or its first character.
IdChars == {"U", "1", "2", "a", "b", "h", "i", "l", "o", "x", "d"}

RECURSIVE WordPrefix(_)
WordPrefix(s) ==
    IF s = <<>> \/ Head(s) \notin IdChars THEN <<>>
    ELSE <<Head(s)>> \o WordPrefix(Tail(s))

RECURSIVE ReplaceTokens(_, _)
\* The text with every token that is an id of the map replaced by its name.
ReplaceTokens(dict, s) ==
    IF s = <<>> THEN <<>>
    ELSE LET word == WordPrefix(s)
         IN  IF word = <<>> THEN <<Head(s)>> \o ReplaceTokens(dict, Tail(s))
             ELSE (IF word \in DOMAIN dict THEN dict[word] ELSE word)
                  \o ReplaceTokens(dict, SubSeq(s, Len(word) + 1, Len(s)))

\* C22 (as claimed): the rendered content is the text with each id replaced
\* where it stands as a whole token, and it is the same for every order in
\* which the ids of the user map are replaced.
C22_SubstitutionWholeTokenAnyOrder ==
    content # None =>
      /\ \A order \in Orders(DOMAIN users) :
             replace_slack_id_to_real_name(users, order, text) = Unwrap(content)
      /\ Unwrap(content) = ReplaceTokens(users, text)

\* The positions of the loop body between the dedup lookup that found no
\* row and the insert.
BeforeInsert == {"fetch", "parent", "post", "start_thread", "insert"}

\* C23: the loop body is entered past the dedup lookup only by a lookup that
\* found no row for the message's (channel id, ts); from there to the insert
\* the table still holds no row for that key; and table posts changes only
\* by the insert of that iteration, which appends one row with that key.
C23_LookupBeforeRecord ==
    [][/\ pc \in BeforeInsert => RowsOf(index) = <<>>
       /\ (pc' = "fetch" /\ pc # "fetch") => (pc = "lookup" /\ index' = index)
       /\ posts_table' # posts_table =>
            /\ pc = "insert" /\ index' = index
            /\ Len(posts_table') = Len(posts_table) + 1
            /\ SubSeq(posts_table', 1, Len(posts_table)) = posts_table
            /\ posts_table'[Len(posts_table')].slack_ts = KeyOf[Current.ts]
            /\ posts_table'[Len(posts_table')].slack_channel_id = channel.id]_vars

\* C23 witness: in a rerun the second message, whose timestamp differs from
\* the first's, has just been inserted after the first was found in the
\* table.
C23_Witness ==
    /\ run = 2 /\ pc = "sleep" /\ index = 2
    /\ channel.messages[1].ts # channel.messages[2].ts
    /\ Len(RowsOf(1)) = 1 /\ Len(RowsOf(2)) = 1
    /\ DoneFor("insert", 2) # <<>> /\ DoneFor("insert", 1) = <<>>

\* The rows table posts holds for a key (channel id, ts).
RowsAt(table, t) ==
    SelectSeq(table, LAMBDA r : r.slack_ts = KeyOf[t] /\ r.slack_channel_id = channel.id)

\* C24: no step of any run changes or removes a row of table posts: the
\* table after the step begins with the table before it, and a key that had
\* a row before the step has the same rows after it.
C24_LedgerEntriesImmutable ==
    [][/\ Len(posts_table) <= Len(posts_table')
       /\ SubSeq(posts_table', 1, Len(posts_table)) = posts_table
       /\ \A t \in TsSet :
              RowsAt(posts_table, t) # <<>> =>
                  RowsAt(posts_table', t) = RowsAt(posts_table, t)]_vars

\* C24 witness: a second run has ended after it inserted the second message
\* next to the row an earlier run wrote for the first.
C24_Witness ==
    /\ run = 2 /\ pc = "idle" /\ result = "Ok"
    /\ Len(posts_table) = 2
    /\ DoneFor("insert", 1) = <<>> /\ DoneFor("insert", 2) # <<>>
    /\ posts_table[1].slack_ts = KeyOf[channel.messages[1].ts]

\* Every message of the channel has a row in table posts under its key.
AllLedgered == \A i \in MsgIndexes : RowsOf(i) # <<>>

\* A run has returned Ok with every message in table posts.
Completed == run >= 1 /\ pc = "idle" /\ result = "Ok" /\ AllLedgered

\* The posts of the current run are for messages all of whose predecessors
\* have a row in table posts.
PostsFromFirstUnledgered ==
    \A k \in 1..Len(log) :
        log[k].op = "post_message" =>
            \A j \in 1..(log[k].index - 1) : RowsOf(j) # <<>>

\* C25 (as claimed): for a well-formed channel that is rerun again and again,
\* once the failures of fetch, post, start_thread and of the database have
\* stopped, a run eventually returns Ok with every message in table posts;
\* and every run posts only from the first message without a row on.
C25_RerunCompletes ==
    /\ <>Completed
    /\ []PostsFromFirstUnledgered

\* The first message in replay order that has message j's timestamp.
FirstWithTs(j) ==
    CHOOSE i \in 1..j :
        /\ channel.messages[i].ts = channel.messages[j].ts
        /\ \A h \in 1..(i - 1) : channel.messages[h].ts # channel.messages[j].ts

\* C26: a message that comes after another message of the same timestamp is
\* never posted, opens no thread and gets no row of its own: no run makes a
\* post_message, start_thread or insert for it, and the rows under its key
\* are at most the one row written for the first message of that timestamp.
C26_SameTimestampSkipped ==
    [](\A j \in MsgIndexes :
          FirstWithTs(j) # j =>
              /\ post_count(j) = 0
              /\ \A k \in 1..Len(log) :
                     log[k].index = j => log[k].op = "get_channel"
              /\ Len(RowsOf(j)) <= 1
              /\ \A k \in 1..Len(RowsOf(j)) :
                     \E d \in dest_messages :
                         d.id = RowsOf(j)[k].id /\ d.source = FirstWithTs(j))

\* C26 witness: two messages of one timestamp have been replayed by two runs
\* that returned Ok: the first has one post and the one row, the second none.
C26_Witness ==
    /\ run = 2 /\ pc = "idle" /\ result = "Ok" /\ completed
    /\ Len(channel.messages) = 2
    /\ channel.messages[1].ts = channel.messages[2].ts
    /\ channel.messages[1] # channel.messages[2]
    /\ post_count(1) = 1 /\ post_count(2) = 0
    /\ Len(posts_table) = 1

\* C27: every text the encoding wrote decodes to the TimeStamp it was written
\* for, and two bound texts are equal exactly when their TimeStamps are, so a
\* select by the text finds the rows of that timestamp and no others.
C27_KeyRoundTrips ==
    /\ \A i \in 1..Len(decoded_ts) : decoded_ts[i] = Some(channel.messages[i].ts)
    /\ \A i, j \in 1..Len(bound_ts) :
           (bound_ts[i] = bound_ts[j]) <=> (channel.messages[i].ts = channel.messages[j].ts)

\* C27 witness: the timestamps 1 s + 10 ns and 11 s, whose digits are the
\* same, have been encoded and decoded.
C27_Witness ==
    /\ Len(decoded_ts) = 2
    /\ channel.messages[1].ts = Ts(1, 10)
    /\ channel.messages[2].ts = Ts(11, 0)
    /\ bound_ts[1] # bound_ts[2]

====
